---- MODULE Spec2Model ----
(***************************************************************************)
(* Model of recon_tool.py (Subfinder + httpx recon tool v4.0).             *)
(*                                                                         *)
(* Text is modelled as a sequence of tokens: a URL such as                 *)
(* "https://admin.example.com/login" is                                    *)
(* <<"https://", "admin", ".example.com", "/", "login">>.  str.replace,    *)
(* str.startswith, str.lower and the `in` substring test are modelled on   *)
(* tokens.  A Python dict is a function whose DOMAIN is its key set.       *)
(***************************************************************************)
EXTENDS Integers, Sequences, FiniteSets, TLC

VARIABLES
    pc,                \* position of main() / of the function under analysis
    max_hosts,         \* OutputManager.max_hosts
    lines,             \* lines of alive_file
    results,           \* list of parsed records (dicts)
    categorized,       \* dict category -> list of host_data
    stats,             \* dict of counters
    interesting,       \* dict group -> list of display strings
    screen,            \* items printed by the display methods
    files,             \* which transient files exist: subs_file, alive_file
    reports,           \* which report files were written
    remove_failed,     \* transient files whose os.remove raised
    steps,             \* the steps of main() performed so far
    subfinder_outcome, \* what the subfinder process did
    httpx_outcome,     \* what the httpx process did
    messages,          \* status messages printed
    fault,             \* exception caught by `except Exception` of main()
    traceback,         \* a traceback was printed
    interrupted,       \* a KeyboardInterrupt arrived
    exit_code          \* exit code of the process, -1 while it runs

dataVars == <<lines, results, categorized, stats, interesting>>
envVars == <<files, reports, remove_failed, subfinder_outcome, httpx_outcome>>
procVars == <<messages, fault, traceback, interrupted, exit_code>>
vars == <<pc, max_hosts, screen, steps, dataVars, envVars, procVars>>

(***************************************************************************)
(* Bounds                                                                  *)
(***************************************************************************)
\* records per categorize_results call
MaxRecords == 3
\* lines per parse_httpx_results call
MaxLines == 3
\* hosts per category given to display_categorized_results
MaxBucket == 6
\* largest numeric --max-hosts tried besides the default
MaxHostsArg == 3
\* lines httpx prints in a run of main()
MaxProbeLines == 2
\* how far below and above the column width the text lengths of a host line go
TextSpan == 5

(***************************************************************************)
(* Python helpers                                                          *)
(***************************************************************************)
\* dict.get(key, default)
Get(d, k, default) == IF k \in DOMAIN d THEN d[k] ELSE default

\* d[k] = v on a dict
SetKey(d, k, v) == [x \in DOMAIN d \cup {k} |-> IF x = k THEN v ELSE d[x]]

\* str.replace(sub, "") with sub one token: every occurrence is removed
Replace(s, sub) == SelectSeq(s, LAMBDA t : t # sub)

\* str.startswith(prefix)
StartsWith(s, prefix) == Len(s) > 0 /\ s[1] = prefix

\* str.lower() on one token
LowerToken(t) ==
    CASE t = "Admin" -> "admin"
      [] t = "Login" -> "login"
      [] t = "API." -> "api."
      [] OTHER -> t

\* str.lower()
Lower(s) == [i \in 1..Len(s) |-> LowerToken(s[i])]

\* tokens that contain a keyword as a proper substring
SubstringPairs == {<<"administrator", "admin">>, <<"curl", "url">>}

\* `keyword in text`
Contains(s, keyword) ==
    \E i \in 1..Len(s) : s[i] = keyword \/ <<s[i], keyword>> \in SubstringPairs

(***************************************************************************)
(* ReconCategorizer                                                        *)
(***************************************************************************)
CategoryOrder ==
    <<"fully_operational", "https_only", "http_only", "redirects",
      "errors", "blocked", "no_response">>

Categories == {CategoryOrder[i] : i \in 1..Len(CategoryOrder)}

\* stats dict built at the top of categorize_results
InitialStats(rs) ==
    [total_discovered |-> Len(rs), dns_resolved |-> Len(rs),
     online_hosts |-> Len(rs), web_services |-> 0, fully_operational |-> 0,
     https_only |-> 0, http_only |-> 0, redirects |-> 0, errors |-> 0,
     blocked |-> 0, no_response |-> 0]

InitialInteresting ==
    [admin_panels |-> <<>>, api_endpoints |-> <<>>,
     development_servers |-> <<>>, shared_hosting |-> <<>>]

\* clean_url = url.replace("https://", "").replace("http://", "")
CleanUrl(url) == Replace(Replace(url, "https://"), "http://")

\* the host_data dict built for one record
HostData(result) ==
    LET url == Get(result, "url", <<>>) IN
    [url |-> url,
     clean_url |-> CleanUrl(url),
     status_code |-> Get(result, "status_code", 0),
     title |-> Get(result, "title", <<"No Title">>),
     is_https |-> StartsWith(url, "https://")]

\* mutant: the 4xx range is tested before 401 / 403
BranchRangeFirst(status) ==
    IF status = 200 THEN "ok"
    ELSE IF status \in {301, 302, 307, 308} THEN "redirect"
    ELSE IF 400 <= status /\ status < 500 THEN "client_error"
    ELSE IF status = 403 \/ status = 401 THEN "blocked"
    ELSE IF status >= 500 THEN "server_error"
    ELSE IF status = 0 THEN "no_response"
    ELSE "fallback"

\* the if/elif chain: which branch a status code takes
Branch(status) ==
    IF status = 200 THEN "ok"
    ELSE IF status \in {301, 302, 307, 308} THEN "redirect"
    ELSE IF status = 403 \/ status = 401 THEN "blocked"
    ELSE IF 400 <= status /\ status < 500 THEN "client_error"
    ELSE IF status >= 500 THEN "server_error"
    ELSE IF status = 0 THEN "no_response"
    ELSE "fallback"

\* mutant: the no-response branch counts a web service too
BranchCountersAllWeb(branch) ==
    CASE branch = "ok" -> {"web_services", "fully_operational"}
      [] branch = "redirect" -> {"web_services", "redirects"}
      [] branch = "blocked" -> {"web_services", "blocked"}
      [] branch = "client_error" -> {"web_services", "errors"}
      [] branch = "server_error" -> {"web_services", "errors"}
      [] branch = "no_response" -> {"web_services", "no_response"}
      [] branch = "fallback" -> {"web_services"}

\* the counters each branch increments
BranchCounters(branch) ==
    CASE branch = "ok" -> {"web_services", "fully_operational"}
      [] branch = "redirect" -> {"web_services", "redirects"}
      [] branch = "blocked" -> {"web_services", "blocked"}
      [] branch = "client_error" -> {"web_services", "errors"}
      [] branch = "server_error" -> {"web_services", "errors"}
      [] branch = "no_response" -> {"no_response"}
      [] branch = "fallback" -> {"web_services"}

\* the bucket each branch appends to
BranchBucket(branch) ==
    CASE branch = "ok" -> "fully_operational"
      [] branch = "redirect" -> "redirects"
      [] branch = "blocked" -> "blocked"
      [] branch = "client_error" -> "errors"
      [] branch = "server_error" -> "errors"
      [] branch = "no_response" -> "no_response"
      [] branch = "fallback" -> "fully_operational"

\* stats[k] += 1 for each k in keys
Bump(st, keys) == [k \in DOMAIN st |-> IF k \in keys THEN st[k] + 1 ELSE st[k]]

\* mutant: insert(0, h) instead of append(h)
AppendToFront(cat, c, h) ==
    [k \in DOMAIN cat \cup {c} |->
        IF k = c THEN <<h>> \o (IF c \in DOMAIN cat THEN cat[c] ELSE <<>>)
        ELSE cat[k]]

\* categorized[c].append(h) on a defaultdict(list)
AppendTo(cat, c, h) ==
    [k \in DOMAIN cat \cup {c} |->
        IF k = c THEN Append(IF c \in DOMAIN cat THEN cat[c] ELSE <<>>, h)
        ELSE cat[k]]

AdminKeywords == {"admin", "login", "panel", "dashboard", "control", "administrator"}
ApiKeywords == {"api.", "/api", "/v1", "/v2", "/v3", "/graphql", "/rest"}
DevPorts == {":3000", ":5000", ":8000", ":8080", ":9000", ":4200"}

\* the three `if any(...)` tests of _check_interesting_finds
MatchesGroup(group, url, title) ==
    CASE group = "admin_panels" ->
            \E k \in AdminKeywords : Contains(url, k) \/ Contains(title, k)
      [] group = "api_endpoints" -> \E k \in ApiKeywords : Contains(url, k)
      [] group = "development_servers" -> \E k \in DevPorts : Contains(url, k)
      [] OTHER -> FALSE

\* mutant: one append per matching keyword instead of one per group
CheckInterestingFindsPerKeyword(result, intr) ==
    LET url == Lower(Get(result, "url", <<>>))
        title == Lower(Get(result, "title", <<>>))
        entry == Get(result, "clean_url", url)
        hits(g) ==
            CASE g = "admin_panels" ->
                    Cardinality({k \in AdminKeywords :
                                    Contains(url, k) \/ Contains(title, k)})
              [] g = "api_endpoints" ->
                    Cardinality({k \in ApiKeywords : Contains(url, k)})
              [] g = "development_servers" ->
                    Cardinality({k \in DevPorts : Contains(url, k)})
              [] OTHER -> 0
    IN [g \in DOMAIN intr |-> intr[g] \o [j \in 1..hits(g) |-> entry]]

\* _check_interesting_finds(result, interesting)
CheckInterestingFinds(result, intr) ==
    LET url == Lower(Get(result, "url", <<>>))
        title == Lower(Get(result, "title", <<>>))
        entry == Get(result, "clean_url", url)
    IN [g \in DOMAIN intr |->
            IF MatchesGroup(g, url, title) THEN Append(intr[g], entry) ELSE intr[g]]

\* Python values other than dicts carry one of these keys; a dict is a
\* function over its own (JSON) keys
NonDictTags == {"py_int", "py_str", "py_list", "py_none"}

IsDict(v) == DOMAIN v \cap NonDictTags = {}

\* one iteration of the loop of categorize_results over results[i]
CategorizeOne(acc, i) ==
    LET result == acc.results[i]
        marked == SetKey(result, "clean_url", CleanUrl(Get(result, "url", <<>>)))
        host == HostData(result)
        branch == Branch(host.status_code)
    IN [results |-> [acc.results EXCEPT ![i] = marked],
        categorized |-> AppendTo(acc.categorized, BranchBucket(branch), host),
        stats |-> Bump(acc.stats, BranchCounters(branch)),
        interesting |-> CheckInterestingFinds(marked, acc.interesting),
        raised |-> FALSE]

\* the loop; result.get(...) raises AttributeError on a value that is not a dict
RECURSIVE CategorizeLoop(_, _)
CategorizeLoop(acc, i) ==
    IF i > Len(acc.results) THEN acc
    ELSE IF ~IsDict(acc.results[i]) THEN [acc EXCEPT !.raised = TRUE]
    ELSE CategorizeLoop(CategorizeOne(acc, i), i + 1)

\* categorize_results(results)
CategorizeResults(rs) ==
    CategorizeLoop([results |-> rs, categorized |-> [c \in {} |-> <<>>],
                    stats |-> InitialStats(rs),
                    interesting |-> InitialInteresting,
                    raised |-> FALSE], 1)

(***************************************************************************)
(* parse_httpx_results                                                     *)
(*                                                                         *)
(* A line of the results file is modelled by its lexical form:             *)
(*   [form |-> "blank"]                 whitespace only                    *)
(*   [form |-> "garbage"]               not JSON                           *)
(*   [form |-> "object", body |-> d]    a JSON object with the keys of d   *)
(*   [form |-> "number", body |-> n]    a JSON number                      *)
(*   [form |-> "string", body |-> s]    a JSON string                      *)
(*   [form |-> "array",  body |-> a]    a JSON array of strings            *)
(*   [form |-> "null"]                  the JSON literal null              *)
(***************************************************************************)
\* line.strip() is falsy
IsBlank(line) == line.form = "blank"

\* json.loads(line): ok = FALSE stands for json.JSONDecodeError
JsonLoads(line) ==
    CASE line.form = "object" -> [ok |-> TRUE, data |-> line.body]
      [] line.form = "number" -> [ok |-> TRUE, data |-> [py_int |-> line.body]]
      [] line.form = "string" -> [ok |-> TRUE, data |-> [py_str |-> line.body]]
      [] line.form = "array" -> [ok |-> TRUE, data |-> [py_list |-> line.body]]
      [] line.form = "null" -> [ok |-> TRUE, data |-> [py_none |-> TRUE]]
      [] OTHER -> [ok |-> FALSE, data |-> [py_none |-> TRUE]]

\* `"url" in data`: key test on a dict, substring test on a str, element
\* test on a list, TypeError on an int or None
UrlIn(data) ==
    IF IsDict(data) THEN (IF "url" \in DOMAIN data THEN "true" ELSE "false")
    ELSE IF "py_str" \in DOMAIN data
        THEN (IF Contains(data.py_str, "url") THEN "true" ELSE "false")
    ELSE IF "py_list" \in DOMAIN data
        THEN (IF \E i \in 1..Len(data.py_list) : data.py_list[i] = <<"url">>
              THEN "true" ELSE "false")
    ELSE "raise"

\* the loop of parse_httpx_results from line i on; only json.JSONDecodeError
\* is caught
RECURSIVE ParseLoop(_, _, _)
ParseLoop(ls, acc, i) ==
    IF i > Len(ls) THEN [results |-> acc, raised |-> FALSE]
    ELSE IF IsBlank(ls[i]) THEN ParseLoop(ls, acc, i + 1)
    ELSE LET loaded == JsonLoads(ls[i]) IN
         IF ~loaded.ok THEN ParseLoop(ls, acc, i + 1)
         ELSE LET test == UrlIn(loaded.data) IN
              IF test = "raise" THEN [results |-> acc, raised |-> TRUE]
              ELSE IF test = "true"
                   THEN ParseLoop(ls, Append(acc, loaded.data), i + 1)
              ELSE ParseLoop(ls, acc, i + 1)

\* parse_httpx_results(results_file), the file existing or not
ParseHttpxResults(exists, ls) ==
    IF ~exists THEN [results |-> <<>>, raised |-> FALSE]
    ELSE ParseLoop(ls, <<>>, 1)

(***************************************************************************)
(* OutputManager: what each display method prints, as a sequence of items  *)
(***************************************************************************)
\* max_hosts for `--max-hosts all`
AllHosts == 999999

\* hosts[:n]
Take(s, n) == SubSeq(s, 1, IF n < Len(s) THEN n ELSE Len(s))

\* hosts[n:]
Drop(s, n) == SubSeq(s, n + 1, Len(s))

\* mutant: >= instead of >
IsLargeInclusive(count, m) == count >= m

\* the test of display_categorized_results: len(hosts) > self.max_hosts
IsLarge(count, m) == count > m

\* the column width of _display_host; the length of a text is its number of
\* tokens, exact for text given one character per token
DisplayWidth == 40

\* "..."
Ellipsis == <<".", ".", ".">>

\* if len(text) > 40: text[:37] + "..." else: text
Shorten(text) ==
    IF Len(text) > DisplayWidth
    THEN Take(text, DisplayWidth - Len(Ellipsis)) \o Ellipsis
    ELSE text

\* _display_host(host, index, color), within the section of a category;
\* the title is sliced to [:40] when it is read, before the length test
DisplayHost(category, host, index) ==
    LET url == Get(host, "clean_url", Get(host, "url", <<>>))
        title == Take(Get(host, "title", <<"No Title">>), DisplayWidth)
    IN [kind |-> "host", category |-> category, index |-> index, host |-> host,
        status |-> Get(host, "status_code", 0),
        url_display |-> Shorten(url),
        title_display |-> Shorten(title)]

\* for i, host in enumerate(hosts, 1): self._display_host(host, i, ...)
HostLines(category, hosts) ==
    [i \in 1..Len(hosts) |-> DisplayHost(category, hosts[i], i)]

\* _display_small_category(category, hosts)
DisplaySmallCategory(category, hosts) ==
    <<[kind |-> "header", category |-> category, count |-> Len(hosts),
       mode |-> "all"]>>
    \o HostLines(category, hosts)

\* the "Not shown" block of _display_large_category
NotShownBlock(category, hosts, m) ==
    LET remaining == Len(hosts) - m
        remaining_hosts == Drop(hosts, m)
        first == Take(remaining_hosts, 3)
        sample == [i \in 1..Len(first) |-> Get(first[i], "clean_url", Get(first[i], "url", <<>>))]
    IN IF remaining > 0
       THEN <<[kind |-> "not_shown", category |-> category, remaining |-> remaining]>>
            \o (IF Len(sample) > 0
                THEN <<[kind |-> "sample", category |-> category, urls |-> sample,
                        has_more |-> remaining > 3, more |-> remaining - 3]>>
                ELSE <<>>)
       ELSE <<>>

\* _display_large_category(category, hosts)
DisplayLargeCategory(category, hosts, m) ==
    <<[kind |-> "header", category |-> category, count |-> Len(hosts),
       mode |-> "top", shown |-> m],
      [kind |-> "warning", category |-> category, shown |-> m,
       total |-> Len(hosts)]>>
    \o HostLines(category, Take(hosts, m))
    \o NotShownBlock(category, hosts, m)

\* the body of the loop of display_categorized_results for one category
DisplayCategory(cat, category, m) ==
    IF category \in DOMAIN cat /\ cat[category] # <<>>
    THEN IF IsLarge(Len(cat[category]), m)
         THEN DisplayLargeCategory(category, cat[category], m)
         ELSE DisplaySmallCategory(category, cat[category])
    ELSE <<>>

RECURSIVE DisplayCategoriesFrom(_, _, _)
DisplayCategoriesFrom(cat, m, i) ==
    IF i > Len(CategoryOrder) THEN <<>>
    ELSE DisplayCategory(cat, CategoryOrder[i], m)
         \o DisplayCategoriesFrom(cat, m, i + 1)

\* display_categorized_results(categorized_hosts)
DisplayCategorizedResults(cat, m) == DisplayCategoriesFrom(cat, m, 1)

RECURSIVE TotalHosts(_, _)
TotalHosts(cat, keys) ==
    IF keys = {} THEN 0
    ELSE LET k == CHOOSE x \in keys : TRUE IN
         Len(cat[k]) + TotalHosts(cat, keys \ {k})

\* one line of the overview
OverviewLine(cat, category, m, total) ==
    IF category \in DOMAIN cat /\ cat[category] # <<>>
    THEN <<[kind |-> "overview", category |-> category,
            count |-> Len(cat[category]), total |-> total,
            mode |-> IF Len(cat[category]) > m THEN "top" ELSE "all"]>>
    ELSE <<>>

RECURSIVE OverviewFrom(_, _, _, _)
OverviewFrom(cat, m, total, i) ==
    IF i > Len(CategoryOrder) THEN <<>>
    ELSE OverviewLine(cat, CategoryOrder[i], m, total)
         \o OverviewFrom(cat, m, total, i + 1)

\* display_category_overview(categorized_hosts)
DisplayCategoryOverview(cat, m) ==
    LET total == TotalHosts(cat, DOMAIN cat) IN
    OverviewFrom(cat, m, total, 1) \o <<[kind |-> "total", total |-> total]>>

\* display_quick_stats(stats)
DisplayQuickStats(st) ==
    <<[kind |-> "stats",
       total_discovered |-> Get(st, "total_discovered", 0),
       dns_resolved |-> Get(st, "dns_resolved", 0),
       online_hosts |-> Get(st, "online_hosts", 0),
       web_services |-> Get(st, "web_services", 0),
       fully_operational |-> Get(st, "fully_operational", 0),
       redirects |-> Get(st, "redirects", 0),
       blocked |-> Get(st, "blocked", 0),
       errors |-> Get(st, "errors", 0)]>>

\* insertion order of the interesting dict
GroupOrder ==
    <<"admin_panels", "api_endpoints", "development_servers", "shared_hosting">>

\* one group of display_interesting_finds
DisplayGroup(group, hosts) ==
    IF hosts = <<>> THEN <<>>
    ELSE <<[kind |-> "group", group |-> group, count |-> Len(hosts)]>>
         \o (IF Len(hosts) <= 10
             THEN [i \in 1..Len(hosts) |-> [kind |-> "find", text |-> hosts[i]]]
             ELSE [i \in 1..8 |-> [kind |-> "find", text |-> hosts[i]]]
                  \o <<[kind |-> "more_finds", more |-> Len(hosts) - 8]>>)

RECURSIVE DisplayGroupsFrom(_, _)
DisplayGroupsFrom(intr, i) ==
    IF i > Len(GroupOrder) THEN <<>>
    ELSE DisplayGroup(GroupOrder[i], intr[GroupOrder[i]])
         \o DisplayGroupsFrom(intr, i + 1)

\* display_interesting_finds(interesting)
DisplayInterestingFinds(intr) ==
    IF \A g \in DOMAIN intr : intr[g] = <<>> THEN <<>>
    ELSE DisplayGroupsFrom(intr, 1)

(***************************************************************************)
(* Inputs                                                                  *)
(***************************************************************************)
Urls ==
    {<<"https://", "admin", ".example.com", "/", "login">>,
     <<"http://", "dev.example.com", ":3000">>,
     <<"https://", "API.", "example.com">>,
     <<"https://", "administrator", ".example.com", "/api", ":8080">>,
     <<"http://", "www.example.com">>,
     <<"https://", "shop.example.com">>}

Titles == {<<"Portal">>, <<"Login", " Page">>}

\* status codes around every boundary of the if/elif chain
StatusCodes ==
    {-1, 0, 1, 100, 199, 200, 201, 204, 300, 301, 302, 303, 307, 308, 309,
     399, 400, 401, 402, 403, 404, 499, 500, 503, 599, 600}

CoreStatusCodes == {0, 200, 204, 301, 403, 404, 500}

PlainUrl == <<"https://", "shop.example.com">>

\* records with every status code, on both schemes
WideRecords ==
    {[url |-> u, status_code |-> s] :
        u \in {PlainUrl, <<"http://", "www.example.com">>}, s \in StatusCodes}

\* records used in sequences
CoreRecords ==
    {[url |-> PlainUrl, status_code |-> s] : s \in CoreStatusCodes}
    \cup {[url |-> u, status_code |-> 200] : u \in Urls}
    \cup {[url |-> PlainUrl, status_code |-> 200, title |-> t] : t \in Titles}
    \cup {[url |-> <<"http://", "www.example.com">>]}

SeqsUpTo(S, n) == UNION {[1..k -> S] : k \in 0..n}

(***************************************************************************)
(* Inputs of main()                                                        *)
(***************************************************************************)
\* default of --max-hosts
DefaultMaxHosts == 25

\* values of --max-hosts: "all", a number, or other text
MaxHostsArgs ==
    {[kind |-> "all", val |-> 0], [kind |-> "text", val |-> 0]}
    \cup {[kind |-> "int", val |-> n] : n \in (-1..MaxHostsArg) \cup {DefaultMaxHosts}}

\* lines of the results file given to parse_httpx_results
ParseLines ==
    {[form |-> "blank"], [form |-> "garbage"], [form |-> "null"],
     [form |-> "object", body |-> [url |-> PlainUrl, status_code |-> 200]],
     [form |-> "object", body |-> [url |-> <<"http://", "www.example.com">>]],
     [form |-> "object", body |-> [status_code |-> 200]],
     [form |-> "number", body |-> 404],
     [form |-> "string", body |-> <<"curl">>],
     [form |-> "string", body |-> <<"hello">>],
     [form |-> "array", body |-> <<<<"url">>>>],
     [form |-> "array", body |-> <<<<"a">>, <<"b">>>>]}

\* lines httpx prints in a run of main(); run_httpx drops blank lines
ProbeLines ==
    {[form |-> "garbage"],
     [form |-> "object", body |-> [url |-> PlainUrl, status_code |-> 200]],
     [form |-> "object",
      body |-> [url |-> <<"https://", "admin", ".example.com", "/", "login">>,
                status_code |-> 200, title |-> <<"Portal">>]],
     [form |-> "object", body |-> [url |-> <<"http://", "www.example.com">>]],
     [form |-> "object", body |-> [status_code |-> 200]],
     [form |-> "number", body |-> 404],
     [form |-> "string", body |-> <<"curl">>]}

HttpxOutputs == SeqsUpTo(ProbeLines, MaxProbeLines) \ {<<>>}

\* host entries of a category for the display methods
DisplayEntry(i) ==
    HostData([url |-> <<"https://", "host", ToString(i)>>, status_code |-> 200])

DisplayBuckets ==
    {[i \in 1..k |-> DisplayEntry(i)] : k \in 0..MaxBucket}
    \cup {[i \in 1..k |-> DisplayEntry(k + 1 - i)] : k \in 2..MaxBucket}

DisplayDomains ==
    {{"fully_operational"}, {"redirects", "errors"},
     {"fully_operational", "https_only", "no_response"}}

MaxHostsValues == (1..MaxHostsArg) \cup {DefaultMaxHosts, AllHosts}

(***************************************************************************)
(* main()                                                                  *)
(***************************************************************************)
NoCategorized == [c \in {} |-> <<>>]
NoStats == [c \in {} |-> 0]
NoFiles == [subs |-> FALSE, alive |-> FALSE]
NoReports == [json |-> FALSE, txt |-> FALSE]

\* the positions inside the try block of main()
TryPcs ==
    {"subfinder", "httpx", "parse", "categorize", "display", "display_overview",
     "display_results", "display_interesting", "save", "cleanup", "final"}

\* sys.exit(code)
Exit(code) == pc' = "exited" /\ exit_code' = code

\* the `except Exception` handler of main()
Crash(exc) ==
    /\ Exit(1)
    /\ fault' = exc
    /\ traceback' = TRUE
    /\ messages' = Append(messages, "error")
    /\ UNCHANGED interrupted

\* the parsing of --max-hosts: ok = FALSE is the sys.exit(1) branch
ParseMaxHosts(arg) ==
    IF arg.kind = "all" THEN [ok |-> TRUE, value |-> AllHosts]
    ELSE IF arg.kind = "int" /\ arg.val >= 1 THEN [ok |-> TRUE, value |-> arg.val]
    ELSE [ok |-> FALSE, value |-> 0]

ParseArgs ==
    /\ pc = "parse_args"
    /\ \E arg \in MaxHostsArgs :
        LET parsed == ParseMaxHosts(arg) IN
        IF parsed.ok
        THEN /\ max_hosts' = parsed.value
             /\ pc' = "check_tools"
             /\ UNCHANGED <<messages, exit_code>>
        ELSE /\ messages' = Append(messages, "invalid_max_hosts")
             /\ Exit(1)
             /\ UNCHANGED max_hosts
    /\ UNCHANGED <<screen, steps, dataVars, envVars, fault, traceback, interrupted>>

\* check_httpx_version(): False when running httpx raised an Exception
CheckTools ==
    /\ pc = "check_tools"
    /\ \E found \in BOOLEAN :
        IF found
        THEN pc' = "subfinder" /\ UNCHANGED <<messages, exit_code>>
        ELSE messages' = Append(messages, "httpx_not_found") /\ Exit(1)
    /\ UNCHANGED <<max_hosts, screen, steps, dataVars, envVars, fault, traceback,
                   interrupted>>

SubfinderOutcomes == {"exception", "nonzero", "no_file", "empty", "found"}

\* mutant: the `if subdomains` test is missing
RunSubfinderResultAnyFile(outcome) == outcome \in {"found", "empty"}

\* return value of run_subfinder
RunSubfinderResult(outcome) == outcome = "found"

\* whether subfinder left its output file behind
SubfinderFile(outcome, partial) ==
    CASE outcome \in {"empty", "found"} -> TRUE
      [] outcome = "no_file" -> FALSE
      [] OTHER -> partial

RunSubfinder ==
    /\ pc = "subfinder"
    /\ \E outcome \in SubfinderOutcomes, partial \in BOOLEAN :
        /\ subfinder_outcome' = outcome
        /\ files' = [files EXCEPT !.subs = SubfinderFile(outcome, partial)]
        /\ IF RunSubfinderResult(outcome)
           THEN pc' = "httpx" /\ UNCHANGED <<messages, exit_code>>
           ELSE messages' = Append(messages, "subfinder_failed") /\ Exit(1)
    /\ steps' = Append(steps, "discovery")
    /\ UNCHANGED <<max_hosts, screen, dataVars, reports, remove_failed,
                   httpx_outcome, fault, traceback, interrupted>>

\* "write_failed": httpx printed lines but writing alive_file raised
HttpxOutcomes ==
    {"exception", "nonzero", "no_stdout", "blank_stdout", "write_failed", "lines"}

\* return value of run_httpx
RunHttpxResult(input_exists, outcome) == input_exists /\ outcome = "lines"

RunHttpx ==
    /\ pc = "httpx"
    /\ \E outcome \in HttpxOutcomes, out \in HttpxOutputs, partial \in BOOLEAN :
        /\ httpx_outcome' = outcome
        /\ IF RunHttpxResult(files.subs, outcome)
           THEN /\ lines' = out
                /\ files' = [files EXCEPT !.alive = TRUE]
                /\ pc' = "parse"
                /\ UNCHANGED <<messages, exit_code>>
           ELSE /\ files' = [files EXCEPT
                                !.alive = files.subs /\ outcome = "write_failed" /\ partial]
                /\ messages' = Append(messages, "httpx_failed")
                /\ Exit(1)
                /\ UNCHANGED lines
    /\ steps' = Append(steps, "probing")
    /\ UNCHANGED <<max_hosts, screen, results, categorized, stats, interesting,
                   reports, remove_failed, subfinder_outcome, fault, traceback,
                   interrupted>>

\* step 3: results = parse_httpx_results(alive_file); if not results: exit
Parse ==
    /\ pc = "parse"
    /\ LET out == ParseHttpxResults(files.alive, lines) IN
        IF out.raised
        THEN Crash("TypeError") /\ UNCHANGED results
        ELSE /\ results' = out.results
             /\ UNCHANGED <<fault, traceback, interrupted>>
             /\ IF out.results = <<>>
                THEN messages' = Append(messages, "no_results") /\ Exit(1)
                ELSE /\ messages' = Append(messages, "processed")
                     /\ pc' = "categorize"
                     /\ UNCHANGED exit_code
    /\ steps' = Append(steps, "parsing")
    /\ UNCHANGED <<max_hosts, screen, lines, categorized, stats, interesting,
                   envVars>>

\* step 4: categorized, stats, interesting = categorize_results(results)
Categorize ==
    /\ pc = "categorize"
    /\ LET out == CategorizeResults(results) IN
        /\ results' = out.results
        /\ IF out.raised
           THEN /\ Crash("AttributeError")
                /\ UNCHANGED <<categorized, stats, interesting>>
           ELSE /\ categorized' = out.categorized
                /\ stats' = out.stats
                /\ interesting' = out.interesting
                /\ pc' = "display"
                /\ UNCHANGED procVars
    /\ steps' = Append(steps, "categorization")
    /\ UNCHANGED <<max_hosts, screen, lines, envVars>>

\* step 5, first call: output.display_quick_stats(stats)
ShowQuickStats ==
    /\ pc = "display"
    /\ screen' = screen \o DisplayQuickStats(stats)
    /\ steps' = Append(steps, "presentation")
    /\ pc' = "display_overview"
    /\ UNCHANGED <<max_hosts, dataVars, envVars, procVars>>

\* output.display_category_overview(categorized)
ShowCategoryOverview ==
    /\ pc = "display_overview"
    /\ screen' = screen \o DisplayCategoryOverview(categorized, max_hosts)
    /\ pc' = "display_results"
    /\ UNCHANGED <<max_hosts, steps, dataVars, envVars, procVars>>

\* output.display_categorized_results(categorized)
ShowCategorizedResults ==
    /\ pc = "display_results"
    /\ screen' = screen \o DisplayCategorizedResults(categorized, max_hosts)
    /\ pc' = "display_interesting"
    /\ UNCHANGED <<max_hosts, steps, dataVars, envVars, procVars>>

\* output.display_interesting_finds(interesting)
ShowInterestingFinds ==
    /\ pc = "display_interesting"
    /\ screen' = screen \o DisplayInterestingFinds(interesting)
    /\ pc' = "save"
    /\ UNCHANGED <<max_hosts, steps, dataVars, envVars, procVars>>

\* save_enhanced_results: dir is what happens to the output directory
\* ("exists", "created", or "fails" when os.makedirs raises), json_ok and
\* txt_ok whether each report could be written
SaveEnhancedResults(dir, json_ok, txt_ok) ==
    IF dir = "fails"
    THEN [raised |-> TRUE, json |-> FALSE, txt |-> FALSE, printed |-> <<>>]
    ELSE [raised |-> FALSE, json |-> json_ok, txt |-> txt_ok,
          printed |-> <<IF json_ok THEN "json_report" ELSE "json_failed",
                        IF txt_ok THEN "text_report" ELSE "text_failed">>]

\* step 6
Save ==
    /\ pc = "save"
    /\ \E dir \in {"exists", "created", "fails"}, json_ok \in BOOLEAN,
          txt_ok \in BOOLEAN :
        LET out == SaveEnhancedResults(dir, json_ok, txt_ok) IN
        IF out.raised
        THEN Crash("OSError") /\ UNCHANGED reports
        ELSE /\ reports' = [json |-> out.json, txt |-> out.txt]
             /\ messages' = messages \o out.printed
             /\ pc' = "cleanup"
             /\ UNCHANGED <<fault, traceback, interrupted, exit_code>>
    /\ steps' = Append(steps, "persistence")
    /\ UNCHANGED <<max_hosts, screen, dataVars, files, remove_failed,
                   subfinder_outcome, httpx_outcome>>

TempFiles == {"subs", "alive"}

Existing == {f \in TempFiles : files[f]}

\* the cleanup loop: os.remove of each existing file, errors ignored
Cleanup ==
    /\ pc = "cleanup"
    /\ \E failing \in SUBSET Existing :
        /\ files' = [f \in TempFiles |-> f \in failing]
        /\ remove_failed' = failing
    /\ steps' = Append(steps, "cleanup")
    /\ pc' = "final"
    /\ UNCHANGED <<max_hosts, screen, dataVars, reports, subfinder_outcome,
                   httpx_outcome, procVars>>

\* the final message; main() returns
Final ==
    /\ pc = "final"
    /\ messages' = Append(messages, "completed")
    /\ Exit(0)
    /\ UNCHANGED <<max_hosts, screen, steps, dataVars, envVars, fault, traceback,
                   interrupted>>

\* whether `except KeyboardInterrupt` of main() is around position p
InterruptCaught(p) == p \in TryPcs

\* Ctrl-C while main() is at pc, reaching the top level of main()
Interrupt ==
    /\ pc \notin {"parse_args", "exited"}
    /\ ~interrupted
    /\ interrupted' = TRUE
    /\ IF InterruptCaught(pc)
       THEN /\ messages' = Append(messages, "interrupted")
            /\ Exit(0)
            /\ UNCHANGED traceback
       ELSE /\ traceback' = TRUE
            /\ Exit(130)
            /\ UNCHANGED messages
    /\ \E partial \in BOOLEAN :
        files' = CASE pc = "subfinder" -> [files EXCEPT !.subs = partial]
                   [] pc = "httpx" -> [files EXCEPT !.alive = partial]
                   [] OTHER -> files
    /\ UNCHANGED <<max_hosts, screen, steps, dataVars, reports, remove_failed,
                   subfinder_outcome, httpx_outcome, fault>>

\* Ctrl-C inside os.remove of the cleanup loop: the bare `except: pass`
\* swallows it, the file stays and the loop goes on
InterruptSwallowed ==
    /\ pc = "cleanup"
    /\ ~interrupted
    /\ interrupted' = TRUE
    /\ \E hit \in Existing : \E failing \in SUBSET (Existing \ {hit}) :
        /\ files' = [f \in TempFiles |-> f \in failing \cup {hit}]
        /\ remove_failed' = failing \cup {hit}
    /\ steps' = Append(steps, "cleanup")
    /\ pc' = "final"
    /\ UNCHANGED <<max_hosts, screen, dataVars, reports, subfinder_outcome,
                   httpx_outcome, messages, fault, traceback, exit_code>>

\* the state of a process that has not yet done anything
Idle ==
    /\ screen = <<>>
    /\ files = NoFiles
    /\ reports = NoReports
    /\ remove_failed = {}
    /\ subfinder_outcome = "none"
    /\ httpx_outcome = "none"
    /\ messages = <<>>
    /\ fault = "none"
    /\ traceback = FALSE
    /\ interrupted = FALSE
    /\ exit_code = -1

NoData ==
    /\ lines = <<>>
    /\ results = <<>>
    /\ categorized = NoCategorized
    /\ stats = NoStats
    /\ interesting = InitialInteresting

Init ==
    /\ pc = "parse_args"
    /\ max_hosts = DefaultMaxHosts
    /\ steps = <<>>
    /\ NoData
    /\ Idle

Next ==
    \/ ParseArgs
    \/ CheckTools
    \/ RunSubfinder
    \/ RunHttpx
    \/ Parse
    \/ Categorize
    \/ ShowQuickStats
    \/ ShowCategoryOverview
    \/ ShowCategorizedResults
    \/ ShowInterestingFinds
    \/ Save
    \/ Cleanup
    \/ Final
    \/ Interrupt
    \/ InterruptSwallowed

Spec == Init /\ [][Next]_vars

(***************************************************************************)
(* categorize_results on its own, over record sequences                    *)
(***************************************************************************)
InitCategorize ==
    /\ pc = "categorize"
    /\ max_hosts = DefaultMaxHosts
    /\ steps = <<"discovery", "probing", "parsing">>
    /\ lines = <<>>
    /\ results \in SeqsUpTo(CoreRecords, MaxRecords) \cup {<<r>> : r \in WideRecords}
    /\ categorized = NoCategorized
    /\ stats = NoStats
    /\ interesting = InitialInteresting
    /\ Idle

NextCategorize == Categorize

SpecCategorize == InitCategorize /\ [][NextCategorize]_vars

(***************************************************************************)
(* parse_httpx_results on its own, over results files                      *)
(***************************************************************************)
InitParse ==
    /\ pc = "parse"
    /\ max_hosts = DefaultMaxHosts
    /\ steps = <<"discovery", "probing">>
    /\ lines \in SeqsUpTo(ParseLines, MaxLines)
    /\ results = <<>>
    /\ categorized = NoCategorized
    /\ stats = NoStats
    /\ interesting = InitialInteresting
    /\ screen = <<>>
    /\ files \in {[subs |-> TRUE, alive |-> b] : b \in BOOLEAN}
    /\ reports = NoReports
    /\ remove_failed = {}
    /\ subfinder_outcome = "found"
    /\ httpx_outcome = "lines"
    /\ messages = <<>>
    /\ fault = "none"
    /\ traceback = FALSE
    /\ interrupted = FALSE
    /\ exit_code = -1

NextParse == Parse

SpecParse == InitParse /\ [][NextParse]_vars

(***************************************************************************)
(* display_categorized_results on its own, over categorized hosts          *)
(***************************************************************************)
InitDisplay ==
    /\ pc = "display_results"
    /\ max_hosts \in MaxHostsValues
    /\ steps = <<"discovery", "probing", "parsing", "categorization", "presentation">>
    /\ lines = <<>>
    /\ results = <<>>
    /\ \E d \in DisplayDomains : categorized \in [d -> DisplayBuckets]
    /\ stats = NoStats
    /\ interesting = InitialInteresting
    /\ Idle

NextDisplay == ShowCategorizedResults

SpecDisplay == InitDisplay /\ [][NextDisplay]_vars

(***************************************************************************)
(* _display_host on its own, over URL and title lengths around the width   *)
(***************************************************************************)
\* a text of n characters, one per token, all different
Chars(prefix, n) == [i \in 1..n |-> prefix \o ToString(i)]

TextLengths == (DisplayWidth - TextSpan)..(DisplayWidth + TextSpan)

\* host entries with a URL of n and a title of m characters, or no title
HostLineEntries ==
    {HostData([url |-> <<"https://">> \o Chars("u", n), status_code |-> 200,
               title |-> Chars("t", m)]) : n \in TextLengths, m \in TextLengths}
    \cup {HostData([url |-> <<"https://">> \o Chars("u", n), status_code |-> 200]) :
             n \in TextLengths}

InitHostLine ==
    /\ pc = "display_results"
    /\ max_hosts = DefaultMaxHosts
    /\ steps = <<"discovery", "probing", "parsing", "categorization", "presentation">>
    /\ lines = <<>>
    /\ results = <<>>
    /\ \E h \in HostLineEntries : categorized = [c \in {"fully_operational"} |-> <<h>>]
    /\ stats = NoStats
    /\ interesting = InitialInteresting
    /\ Idle

NextHostLine == ShowCategorizedResults

SpecHostLine == InitHostLine /\ [][NextHostLine]_vars

(***************************************************************************)
(* Properties of categorize_results                                        *)
(***************************************************************************)
\* categorize_results has returned
AfterCategorize == pc = "display"

Bucket(c) == Get(categorized, c, <<>>)

RECURSIVE SumLen(_)
SumLen(cs) ==
    IF cs = <<>> THEN 0 ELSE Len(Bucket(Head(cs))) + SumLen(Tail(cs))

\* the positions of the input that an assignment f sends to category c
Picked(f, c) == SelectSeq([i \in 1..Len(results) |-> i], LAMBDA i : f[i] = c)

\* host entry h was built from input record r
BuiltFrom(h, r) ==
    /\ h.url = r.url
    /\ h.status_code = Get(r, "status_code", 0)
    /\ h.title = Get(r, "title", <<"No Title">>)

\* C1: every input record is placed in exactly one bucket: the bucket
\* lengths sum to the number of records, and there is an assignment of the
\* input positions to categories under which each bucket is exactly the
\* records assigned to it, in input order.
C1_Partition ==
    AfterCategorize =>
        /\ SumLen(CategoryOrder) = Len(results)
        /\ DOMAIN categorized \subseteq Categories
        /\ \E f \in [1..Len(results) -> DOMAIN categorized] :
              \A c \in DOMAIN categorized :
                 LET idx == Picked(f, c) IN
                 /\ Len(categorized[c]) = Len(idx)
                 /\ \A j \in 1..Len(idx) :
                       BuiltFrom(categorized[c][j], results[idx[j]])

\* a run with two non-empty buckets, one of them holding two different records
C1_Witness ==
    /\ AfterCategorize
    /\ Cardinality(DOMAIN categorized) >= 2
    /\ \E c \in DOMAIN categorized :
          Len(categorized[c]) >= 2 /\ categorized[c][1] # categorized[c][2]

ExclusiveCounters ==
    <<"fully_operational", "https_only", "http_only", "redirects",
      "errors", "blocked", "no_response">>

RECURSIVE SumCounters(_)
SumCounters(ks) ==
    IF ks = <<>> THEN 0 ELSE stats[Head(ks)] + SumCounters(Tail(ks))

\* C2: after categorize_results the exclusive-category counters sum to the
\* number of input records.
C2_CountersSumToTotal ==
    AfterCategorize => SumCounters(ExclusiveCounters) = Len(results)

StatusOf(r) == Get(r, "status_code", 0)

InputStatuses == [i \in 1..Len(results) |-> StatusOf(results[i])]

\* C3: web_services is the number of records minus the size of the
\* no_response bucket; the no_response bucket holds exactly the records with
\* status 0, so every other record counted once.
C3_WebServices ==
    AfterCategorize =>
        /\ stats.web_services = Len(results) - Len(Bucket("no_response"))
        /\ Len(Bucket("no_response")) = Len(SelectSeq(InputStatuses, LAMBDA s : s = 0))
        /\ \A j \in 1..Len(Bucket("no_response")) :
              Bucket("no_response")[j].status_code = 0

\* a run with a status-0 record and a record of another status
C3_Witness ==
    /\ AfterCategorize
    /\ Len(Bucket("no_response")) >= 1
    /\ stats.web_services >= 1

\* the category the rule list of the claim gives a status code
RuleCategory(s) ==
    CASE s = 200 -> "fully_operational"
      [] s \in {301, 302, 307, 308} -> "redirects"
      [] s \in {401, 403} -> "blocked"
      [] s \notin {401, 403} /\ s >= 400 /\ s <= 499 -> "errors"
      [] s >= 500 -> "errors"
      [] s = 0 -> "no_response"
      [] OTHER -> "fully_operational"

\* C4: the bucket is decided by the status code alone, by the rule list;
\* the scheme only sets is_https, and https_only / http_only stay empty.
C4_RuleOrder ==
    AfterCategorize =>
        /\ \A c \in Categories :
              [j \in 1..Len(Bucket(c)) |-> Bucket(c)[j].status_code]
                 = SelectSeq(InputStatuses, LAMBDA s : RuleCategory(s) = c)
        /\ \A c \in DOMAIN categorized : \A j \in 1..Len(categorized[c]) :
              categorized[c][j].is_https
                 = (categorized[c][j].url[1] = "https://")
        /\ Bucket("https_only") = <<>>
        /\ Bucket("http_only") = <<>>

\* 403 in blocked, 404 in errors and an https 200 in fully_operational
C4_Witness ==
    /\ AfterCategorize
    /\ \E j \in 1..Len(Bucket("blocked")) : Bucket("blocked")[j].status_code = 403
    /\ \E j \in 1..Len(Bucket("errors")) : Bucket("errors")[j].status_code = 404
    /\ \E j \in 1..Len(Bucket("fully_operational")) :
          /\ Bucket("fully_operational")[j].status_code = 200
          /\ Bucket("fully_operational")[j].is_https

KeywordGroups == {"admin_panels", "api_endpoints", "development_servers"}

\* input record r matches at least one keyword of group g
RecordMatches(g, r) ==
    MatchesGroup(g, Lower(r.url), Lower(Get(r, "title", <<>>)))

\* the URL without its leading scheme
SchemeStripped(url) ==
    IF Len(url) > 0 /\ url[1] \in {"https://", "http://"} THEN Tail(url) ELSE url

\* C6: each group holds, in input order, the scheme-stripped URL of every
\* record matching at least one of its keywords, once per record;
\* shared_hosting stays empty.
C6_InterestingOnce ==
    AfterCategorize =>
        /\ \A g \in KeywordGroups :
              LET hits == SelectSeq(results, LAMBDA r : RecordMatches(g, r)) IN
              interesting[g] = [j \in 1..Len(hits) |-> SchemeStripped(hits[j].url)]
        /\ interesting.shared_hosting = <<>>

\* a record matching two admin keywords is listed, and some record is in
\* both the api and the development-server group
C6_Witness ==
    /\ AfterCategorize
    /\ \E j \in 1..Len(interesting.admin_panels) :
          interesting.admin_panels[j] = <<"admin", ".example.com", "/", "login">>
    /\ \E j \in 1..Len(interesting.api_endpoints) :
          \E k \in 1..Len(interesting.development_servers) :
             interesting.api_endpoints[j] = interesting.development_servers[k]

(***************************************************************************)
(* Properties of parse_httpx_results                                       *)
(***************************************************************************)
\* step 3 of main() has run
AfterParse == Len(steps) >= 3 /\ steps[3] = "parsing"

\* the lines that are a JSON object with a url key, decoded, in order
UrlObjects(ls) ==
    LET keep == SelectSeq(ls, LAMBDA l : l.form = "object" /\ "url" \in DOMAIN l.body)
    IN [j \in 1..Len(keep) |-> keep[j].body]

\* C5: parse_httpx_results returns exactly the lines that decode to a JSON
\* object with a url key, in input order; every other line is skipped and
\* nothing is raised.
C5_ParseSkipsSilently ==
    (AfterParse /\ files.alive) =>
        /\ fault = "none"
        /\ results = UrlObjects(lines)

(***************************************************************************)
(* Properties of main()                                                    *)
(***************************************************************************)
StepOrder ==
    <<"discovery", "probing", "parsing", "categorization", "presentation",
      "persistence", "cleanup">>

IsPrefix(s, t) == Len(s) <= Len(t) /\ \A i \in 1..Len(s) : s[i] = t[i]

\* the run ended with a non-zero code after k steps, nothing later was done
StoppedAfter(k) ==
    /\ pc = "exited"
    /\ exit_code # 0
    /\ Len(steps) = k
    /\ categorized = NoCategorized
    /\ screen = <<>>
    /\ reports = NoReports

\* C7: the steps run in the fixed order, and a failed or empty discovery, a
\* failed or empty probing, or a parse yielding no record ends the run with
\* a non-zero exit code before any later step.
C7_StopAtFirstFailure ==
    /\ IsPrefix(steps, StepOrder)
    /\ subfinder_outcome \notin {"none", "found"} => StoppedAfter(1)
    /\ httpx_outcome \notin {"none", "lines"} => StoppedAfter(2)
    /\ (AfterParse /\ results = <<>>) => StoppedAfter(3)

\* a run where probing gave lines but none was a record
C7_Witness ==
    /\ pc = "exited"
    /\ exit_code = 1
    /\ steps = <<"discovery", "probing", "parsing">>
    /\ httpx_outcome = "lines"
    /\ results = <<>>
    /\ fault = "none"

\* C8: once the process has terminated, no transient file is left (unless
\* its removal failed).
C8_TempFilesRemoved ==
    (pc = "exited" /\ remove_failed = {}) => files = NoFiles

Printed(m) == \E i \in 1..Len(messages) : messages[i] = m

\* C10: a run that was interrupted ends with the clean message, exit code 0
\* and no traceback.
C10_InterruptClean ==
    (interrupted /\ pc = "exited") =>
        /\ exit_code = 0
        /\ ~traceback
        /\ Printed("interrupted")

(***************************************************************************)
(* Properties of display_categorized_results                               *)
(***************************************************************************)
\* display_categorized_results has returned and nothing was printed after it
AfterListing == pc = "display_interesting"

\* the items printed for category c
Section(c) == SelectSeq(screen, LAMBDA it : Get(it, "category", "") = c)

OfKind(items, k) == SelectSeq(items, LAMBDA it : it.kind = k)

AfterSave == Len(steps) >= 6 /\ steps[6] = "persistence"

\* C11: whatever fails while the reports are persisted, the failure stays
\* inside save_enhanced_results: a run that reached the step and was not
\* interrupted ends with the success message and exit code 0, and each
\* report format is written or reported failed on its own.
C11_SaveFailureAbsorbed ==
    (AfterSave /\ pc = "exited" /\ ~interrupted) =>
        /\ fault = "none"
        /\ exit_code = 0
        /\ Printed("completed")
        /\ reports.json \/ Printed("json_failed")
        /\ reports.txt \/ Printed("text_failed")

(***************************************************************************)
(* Frame of categorize_results                                             *)
(***************************************************************************)
\* C12: categorize_results leaves the records it is given unchanged: the
\* step of main() that calls it does not change any record of results, so
\* the raw records persisted later are the records the parser produced.
C12_InputsUnchanged == [][pc = "categorize" => results' = results]_vars

(***************************************************************************)
(* Properties of _display_host                                             *)
(***************************************************************************)
\* shown is text cut to at most the column width with the ellipsis marker
\* at its end when text is longer than the width, and text itself otherwise
CutWithEllipsis(text, shown) ==
    IF Len(text) > DisplayWidth
    THEN /\ Len(shown) <= DisplayWidth
         /\ Len(shown) >= Len(Ellipsis)
         /\ SubSeq(shown, Len(shown) - Len(Ellipsis) + 1, Len(shown)) = Ellipsis
         /\ SubSeq(shown, 1, Len(shown) - Len(Ellipsis))
               = SubSeq(text, 1, Len(shown) - Len(Ellipsis))
    ELSE shown = text

\* C13: in every host line the clean URL and the title are each cut to at
\* most 40 characters, with the ellipsis marker exactly when the field's own
\* text is longer than 40 characters, and shown unchanged otherwise.
C13_FieldsTruncated ==
    AfterListing =>
        \A i \in 1..Len(screen) :
            screen[i].kind = "host" =>
                /\ CutWithEllipsis(screen[i].host.clean_url, screen[i].url_display)
                /\ CutWithEllipsis(screen[i].host.title, screen[i].title_display)

====
